---- MODULE Spec2Model ----
(***************************************************************************)
(* Bit-exact model of the serialization and pixel-decorrelation primitives *)
(* exercised by src/testc/bitio/wrapper.c and                              *)
(* src/testc/lossless_dsp/wrapper.c.  The bit writers and readers the      *)
(* bitio wrappers call (src/utils/bit_writer_utils.c, bit_reader_utils.c)  *)
(* are modelled from sections 4.1 and 4.2 of the specification.            *)
(*                                                                         *)
(* A uint32_t is a tuple <<b3, b2, b1, b0>> of four bytes (b3 = bits       *)
(* 31..24), so that 32-bit wrap-around and carries between the byte lanes  *)
(* are computed limb by limb exactly as the machine word does; C ints are  *)
(* plain integers (all int values of the code stay inside 32 bits).        *)
(***************************************************************************)
EXTENDS Integers, Sequences, FiniteSets, TLC

VARIABLES
    pc,          \* position of the driver / wrapper being executed
    \* ---- predictor bank (lossless_dsp/wrapper.c) ----
    left,        \* *left
    top,         \* top[-1] = TL, top[0] = T, top[1] = TR
    mode,        \* mode argument of the last c_predictor call
    res,         \* value returned by the last c_predictor call
    \* ---- color transforms (lossless_dsp/wrapper.c) ----
    m,           \* CMultipliers
    num_pixels,  \* num_pixels argument
    orig,        \* the caller's pixel buffer before any transform
    argb_data,   \* the buffer transformed in place / passed as src
    dst,         \* the destination buffer of the out-of-place inverses
    \* ---- bit I/O wrappers (bitio/wrapper.c) ----
    count,         \* count argument
    expected_size, \* capacity hint handed to the writer's init
    idx,           \* loop index i of the wrapper being executed
    out_buf,       \* the caller's output byte buffer (bytes copied so far)
    out_size,      \* *out_size, -1 while the wrapper has not stored it
    ret,           \* return value of the write wrapper, -1 before it returns
    bits,          \* bits[0..idx-1] handed to c_bool_write_sequence
    probs,         \* probs[0..idx-1]
    out_bits,      \* out_bits[0..idx-1] stored by c_bool_read_sequence
    bw,            \* VP8BitWriter of c_bool_write_sequence
    br,            \* VP8BitReader of c_bool_read_sequence
    values,        \* values[0..idx-1] handed to c_lossless_write_sequence
    nbits,         \* nbits[0..idx-1]
    out_values,    \* out_values[0..idx-1] stored by c_lossless_read_sequence
    lbw,           \* VP8LBitWriter of c_lossless_write_sequence
    lbr,           \* VP8LBitReader of c_lossless_read_sequence
    \* ---- concurrent calls ----
    calls,         \* the locals of two concurrent write wrapper calls
    slots,         \* the storage the writers of those calls live in
    \* ---- one coding step of the range coder ----
    trace,         \* range, split and shift count of every put_bit (enc) and
                   \* of every get_bit (dec) made so far
    sp,            \* range, probability and bit of a single coding step
    \* ---- a write wrapper statement by statement ----
    wrapper,       \* "bool": c_bool_write_sequence, "lossless": c_lossless_write_sequence
    wbuf,          \* the local buf: the bytes it points at, and whether they are
                   \* still allocated
    sz,            \* the local sz, -1 before line 19 / 53
    log            \* the statements executed so far, in order

predVars == <<left, top, mode, res>>
colVars  == <<m, num_pixels, orig, argb_data, dst>>
callVars == <<count, expected_size, idx, out_buf, out_size, ret>>
boolVars == <<bits, probs, out_bits, bw, br>>
llVars   == <<values, nbits, out_values, lbw, lbr>>
auxVars  == <<calls, slots, trace, sp>>
lifeVars == <<wrapper, wbuf, sz, log>>
vars == <<pc, predVars, colVars, callVars, boolVars, llVars, auxVars, lifeVars>>

----------------------------------------------------------------------------
(* Bit operations on naturals and integers *)

RECURSIVE Pow2(_)
Pow2(n) == IF n = 0 THEN 1 ELSE 2 * Pow2(n - 1)

RECURSIVE BitAnd(_, _)
BitAnd(x, y) ==
    IF x = 0 \/ y = 0 THEN 0
    ELSE (IF x % 2 = 1 /\ y % 2 = 1 THEN 1 ELSE 0) + 2 * BitAnd(x \div 2, y \div 2)

RECURSIVE BitOr(_, _)
BitOr(x, y) ==
    IF x = 0 THEN y
    ELSE IF y = 0 THEN x
    ELSE (IF x % 2 = 1 \/ y % 2 = 1 THEN 1 ELSE 0) + 2 * BitOr(x \div 2, y \div 2)

RECURSIVE BitXor(_, _)
BitXor(x, y) ==
    IF x = 0 THEN y
    ELSE IF y = 0 THEN x
    ELSE (IF x % 2 # y % 2 THEN 1 ELSE 0) + 2 * BitXor(x \div 2, y \div 2)

\* x >> n on a C int: arithmetic shift, i.e. floor division
Sar(x, n) == x \div Pow2(n)

\* C integer division truncates toward zero
CDiv(x, y) == IF x >= 0 THEN x \div y ELSE -((-x) \div y)

\* abs() of stdlib.h
Abs(x) == IF x < 0 THEN -x ELSE x

\* (int8_t) of the low byte
Int8(x) == IF x % 256 >= 128 THEN (x % 256) - 256 ELSE x % 256

----------------------------------------------------------------------------
(* uint32_t as four byte limbs *)

Byte == 0..255

\* (uint32_t)x for a C int x (two's complement)
FromInt(x) == << (x \div 16777216) % 256, (x \div 65536) % 256,
                 (x \div 256) % 256, x % 256 >>

\* (int)u for a uint32_t u (two's complement reinterpretation)
ToInt(u) ==
    LET hi == IF u[1] >= 128 THEN u[1] - 256 ELSE u[1]
    IN  hi * 16777216 + u[2] * 65536 + u[3] * 256 + u[4]

And32(a, b) == [i \in 1..4 |-> BitAnd(a[i], b[i])]
Or32(a, b)  == [i \in 1..4 |-> BitOr(a[i], b[i])]
Xor32(a, b) == [i \in 1..4 |-> BitXor(a[i], b[i])]
Not32(a)    == [i \in 1..4 |-> 255 - a[i]]

\* a + b modulo 2^32, the carry rippling through the limbs
Add32(a, b) ==
    LET s4 == a[4] + b[4]
        s3 == a[3] + b[3] + s4 \div 256
        s2 == a[2] + b[2] + s3 \div 256
        s1 == a[1] + b[1] + s2 \div 256
    IN  << s1 % 256, s2 % 256, s3 % 256, s4 % 256 >>

\* a >> 1 (logical), the low bit of each limb entering the limb below
Shr1(a) ==
    << a[1] \div 2,
       (a[1] % 2) * 128 + a[2] \div 2,
       (a[2] % 2) * 128 + a[3] \div 2,
       (a[3] % 2) * 128 + a[4] \div 2 >>

\* a >> 8k (logical)
Shr8(a)  == << 0, a[1], a[2], a[3] >>
Shr16(a) == << 0, 0, a[1], a[2] >>
Shr24(a) == << 0, 0, 0, a[1] >>

\* a << 8k, bits shifted out of the word are lost
Shl8(a)  == << a[2], a[3], a[4], 0 >>
Shl16(a) == << a[3], a[4], 0, 0 >>
Shl24(a) == << a[4], 0, 0, 0 >>

\* a < 256 on uint32_t
Below256(a) == a[1] = 0 /\ a[2] = 0 /\ a[3] = 0

MASK_FE   == << 254, 254, 254, 254 >>   \* 0xfefefefeu
MASK_RB   == << 0, 255, 0, 255 >>       \* 0x00ff00ffu
MASK_AG   == << 255, 0, 255, 0 >>       \* 0xff00ff00u
MASK_FF   == << 0, 0, 0, 255 >>         \* 0xff
ARGB_BLACK == << 255, 0, 0, 0 >>        \* 0xff000000u

----------------------------------------------------------------------------
(* Predictor helpers, lossless_dsp/wrapper.c *)

\* the average taken on the whole word, without the 0xfefefefe lane mask
Average2_NoLaneMask(a0, a1) == Add32(Shr1(Xor32(a0, a1)), And32(a0, a1))

Average2(a0, a1) == Add32(Shr1(And32(Xor32(a0, a1), MASK_FE)), And32(a0, a1))

Average3(a0, a1, a2) == Average2(Average2(a0, a2), a1)

Average4(a0, a1, a2, a3) == Average2(Average2(a0, a1), Average2(a2, a3))

\* the clamp without the complement: a wrapped negative saturates high
Clip255_NoComplement(a) == IF Below256(a) THEN a ELSE Shr24(a)

Clip255(a) == IF Below256(a) THEN a ELSE Shr24(Not32(a))

AddSubtractComponentFull(a, b, c) == ToInt(Clip255(FromInt(a + b - c)))

\* the four lanes of a pixel as the code extracts them
LaneA(c) == ToInt(Shr24(c))
LaneR(c) == ToInt(And32(Shr16(c), MASK_FF))
LaneG(c) == ToInt(And32(Shr8(c), MASK_FF))
LaneB(c) == ToInt(And32(c, MASK_FF))

\* ((uint32_t)a << 24) | (r << 16) | (g << 8) | b
PackARGB(a, r, g, b) ==
    Or32(Or32(Or32(Shl24(FromInt(a)), FromInt(r * 65536)), FromInt(g * 256)),
         FromInt(b))

ClampedAddSubtractFull(c0, c1, c2) ==
    LET a == AddSubtractComponentFull(LaneA(c0), LaneA(c1), LaneA(c2))
        r == AddSubtractComponentFull(LaneR(c0), LaneR(c1), LaneR(c2))
        g == AddSubtractComponentFull(LaneG(c0), LaneG(c1), LaneG(c2))
        b == AddSubtractComponentFull(LaneB(c0), LaneB(c1), LaneB(c2))
    IN  PackARGB(a, r, g, b)

\* the half difference rounded toward minus infinity
AddSubtractComponentHalf_Floor(a, b) == ToInt(Clip255(FromInt(a + ((a - b) \div 2))))

AddSubtractComponentHalf(a, b) == ToInt(Clip255(FromInt(a + CDiv(a - b, 2))))

ClampedAddSubtractHalf(c0, c1, c2) ==
    LET ave == Average2(c0, c1)
        a == AddSubtractComponentHalf(LaneA(ave), LaneA(c2))
        r == AddSubtractComponentHalf(LaneR(ave), LaneR(c2))
        g == AddSubtractComponentHalf(LaneG(ave), LaneG(c2))
        b == AddSubtractComponentHalf(LaneB(ave), LaneB(c2))
    IN  PackARGB(a, r, g, b)

Sub3(a, b, c) ==
    LET pb == b - c
        pa == a - c
    IN  Abs(pb) - Abs(pa)

\* the selection with the two candidates exchanged
Select_Swapped(a, b, c) ==
    LET pa_minus_pb ==
            Sub3(LaneA(a), LaneA(b), LaneA(c)) +
            Sub3(LaneR(a), LaneR(b), LaneR(c)) +
            Sub3(LaneG(a), LaneG(b), LaneG(c)) +
            Sub3(LaneB(a), LaneB(b), LaneB(c))
    IN  IF pa_minus_pb <= 0 THEN b ELSE a

Select(a, b, c) ==
    LET pa_minus_pb ==
            Sub3(LaneA(a), LaneA(b), LaneA(c)) +
            Sub3(LaneR(a), LaneR(b), LaneR(c)) +
            Sub3(LaneG(a), LaneG(b), LaneG(c)) +
            Sub3(LaneB(a), LaneB(b), LaneB(c))
    IN  IF pa_minus_pb <= 0 THEN a ELSE b

----------------------------------------------------------------------------
(* The predictors: l is *left, t is the top row indexed -1, 0, 1 *)

Pred0(l, t)  == ARGB_BLACK
Pred1(l, t)  == l
Pred2(l, t)  == t[0]
Pred3(l, t)  == t[1]
Pred4(l, t)  == t[-1]
Pred5(l, t)  == Average3(l, t[0], t[1])
Pred6(l, t)  == Average2(l, t[-1])
Pred7(l, t)  == Average2(l, t[0])
Pred8(l, t)  == Average2(t[-1], t[0])
Pred9(l, t)  == Average2(t[0], t[1])
Pred10(l, t) == Average4(l, t[-1], t[0], t[1])
Pred11(l, t) == Select(t[0], l, t[-1])
Pred12(l, t) == ClampedAddSubtractFull(l, t[0], t[-1])
Pred13(l, t) == ClampedAddSubtractHalf(l, t[0], t[-1])

kPredictors(k, l, t) ==
    CASE k = 0  -> Pred0(l, t)
      [] k = 1  -> Pred1(l, t)
      [] k = 2  -> Pred2(l, t)
      [] k = 3  -> Pred3(l, t)
      [] k = 4  -> Pred4(l, t)
      [] k = 5  -> Pred5(l, t)
      [] k = 6  -> Pred6(l, t)
      [] k = 7  -> Pred7(l, t)
      [] k = 8  -> Pred8(l, t)
      [] k = 9  -> Pred9(l, t)
      [] k = 10 -> Pred10(l, t)
      [] k = 11 -> Pred11(l, t)
      [] k = 12 -> Pred12(l, t)
      [] k = 13 -> Pred13(l, t)

c_predictor(k, l, t) ==
    IF k < 0 \/ k > 13 THEN FromInt(0) ELSE kPredictors(k, l, t)

----------------------------------------------------------------------------
(* Color transforms, lossless_dsp/wrapper.c.  A pixel buffer is a sequence *)
(* of pixels; C index i is sequence index i + 1.                            *)

\* add-green without the final 0x00ff00ff mask: carries leave the lanes
AddGreenPixel_NoMask(argb) ==
    LET green     == And32(Shr8(argb), MASK_FF)
        red_blue0 == And32(argb, MASK_RB)
        red_blue1 == Add32(red_blue0, Or32(Shl16(green), green))
    IN  Or32(And32(argb, MASK_AG), red_blue1)

\* body of the loop of c_add_green for one pixel
AddGreenPixel(argb) ==
    LET green     == And32(Shr8(argb), MASK_FF)
        red_blue0 == And32(argb, MASK_RB)
        red_blue1 == Add32(red_blue0, Or32(Shl16(green), green))
        red_blue2 == And32(red_blue1, MASK_RB)
    IN  Or32(And32(argb, MASK_AG), red_blue2)

c_add_green(src, n, d) ==
    [i \in DOMAIN d |-> IF i <= n THEN AddGreenPixel(src[i]) ELSE d[i]]

\* body of the loop of c_subtract_green for one pixel
SubtractGreenPixel(pixel) ==
    LET argb  == ToInt(pixel)
        green == Sar(argb, 8) % 256
        new_r == ((Sar(argb, 16) % 256) - green) % 256
        new_b == ((Sar(argb, 0) % 256) - green) % 256
    IN  Or32(Or32(And32(FromInt(argb), MASK_AG), FromInt(new_r * 65536)),
             FromInt(new_b))

c_subtract_green(data, n) ==
    [i \in DOMAIN data |-> IF i <= n THEN SubtractGreenPixel(data[i]) ELSE data[i]]

ColorTransformDelta(color_pred, color) == Sar(color_pred * color, 5)

\* body of the loop of c_transform_color for one pixel
TransformColorPixel(mu, argb) ==
    LET green     == Int8(ToInt(Shr8(argb)))
        red       == Int8(ToInt(Shr16(argb)))
        new_red0  == red % 256
        new_blue0 == ToInt(And32(argb, MASK_FF))
        new_red1  == (new_red0 - ColorTransformDelta(Int8(mu.green_to_red), green)) % 256
        new_blue1 == new_blue0 - ColorTransformDelta(Int8(mu.green_to_blue), green)
        new_blue2 == (new_blue1 - ColorTransformDelta(Int8(mu.red_to_blue), red)) % 256
    IN  Or32(Or32(And32(argb, MASK_AG), FromInt(new_red1 * 65536)),
             FromInt(new_blue2))

\* the loop running one pixel too far (i <= num_pixels)
c_transform_color_OneTooMany(mu, data, n) ==
    [i \in DOMAIN data |-> IF i <= n + 1 THEN TransformColorPixel(mu, data[i]) ELSE data[i]]

c_transform_color(mu, data, n) ==
    [i \in DOMAIN data |-> IF i <= n THEN TransformColorPixel(mu, data[i]) ELSE data[i]]

\* the inverse with red_to_blue applied to the red byte still to be restored
TransformColorInversePixel_StaleRed(mu, argb) ==
    LET green     == Int8(ToInt(Shr8(argb)))
        red       == Shr16(argb)
        new_red0  == ToInt(And32(red, MASK_FF))
        new_blue0 == ToInt(And32(argb, MASK_FF))
        new_red1  == (new_red0 + ColorTransformDelta(Int8(mu.green_to_red), green)) % 256
        new_blue1 == new_blue0 + ColorTransformDelta(Int8(mu.green_to_blue), green)
        new_blue2 == (new_blue1 + ColorTransformDelta(Int8(mu.red_to_blue), Int8(new_red0))) % 256
    IN  Or32(Or32(And32(argb, MASK_AG), FromInt(new_red1 * 65536)),
             FromInt(new_blue2))

\* body of the loop of c_transform_color_inverse for one pixel
TransformColorInversePixel(mu, argb) ==
    LET green     == Int8(ToInt(Shr8(argb)))
        red       == Shr16(argb)
        new_red0  == ToInt(And32(red, MASK_FF))
        new_blue0 == ToInt(And32(argb, MASK_FF))
        new_red1  == (new_red0 + ColorTransformDelta(Int8(mu.green_to_red), green)) % 256
        new_blue1 == new_blue0 + ColorTransformDelta(Int8(mu.green_to_blue), green)
        new_blue2 == (new_blue1 + ColorTransformDelta(Int8(mu.red_to_blue), Int8(new_red1))) % 256
    IN  Or32(Or32(And32(argb, MASK_AG), FromInt(new_red1 * 65536)),
             FromInt(new_blue2))

c_transform_color_inverse(mu, src, n, d) ==
    [i \in DOMAIN d |-> IF i <= n THEN TransformColorInversePixel(mu, src[i]) ELSE d[i]]

----------------------------------------------------------------------------
(* Inputs of the pixel-domain specifications *)

\* neighbour pixels: every lane takes the extremes 0 and 255, the green lane
\* also an odd interior value
PredLanes == { <<0, 0, 0>>, <<255, 255, 255>>, <<255, 0, 13>>, <<0, 255, 0>>,
               <<0, 0, 255>>, <<13, 255, 0>> }
PixelSet == { <<x[1], x[2], g, x[3]>> : x \in PredLanes, g \in {0, 13, 255} }
TopRightSet == { <<255, 0, 13, 255>>, <<0, 255, 0, 0>> }

\* pixels and coefficients of the color transforms
ColorLanes == { <<0, 0, 0>>, <<255, 255, 255>>, <<255, 100, 13>>, <<0, 150, 250>> }
ColorPixelSet == { <<x[1], x[2], g, x[3]>> : x \in ColorLanes, g \in {0, 13, 200} }
CoefSet == {0, 1, 77, 128, 255}
MultiplierSet == [green_to_red : CoefSet, green_to_blue : CoefSet, red_to_blue : CoefSet]

\* longest pixel buffer handed to a color transform
MaxPixels == 1

\* the element after the last pixel of a buffer, which no transform may touch
Sentinel == << 222, 173, 190, 239 >>
ZeroPixel == << 0, 0, 0, 0 >>

RECURSIVE SeqsOfLen(_, _)
SeqsOfLen(S, n) ==
    IF n = 0 THEN { <<>> }
    ELSE { Append(s, x) : s \in SeqsOfLen(S, n - 1), x \in S }

NoTop == [k \in {-1, 0, 1} |-> ZeroPixel]

PredIdle ==
    /\ left = ZeroPixel /\ top = NoTop /\ mode = 0 /\ res = ZeroPixel

ColorIdle ==
    /\ m = [green_to_red |-> 0, green_to_blue |-> 0, red_to_blue |-> 0]
    /\ num_pixels = 0
    /\ orig = <<>> /\ argb_data = <<>> /\ dst = <<>>

NoWriter == [range |-> 0, value |-> 0, run |-> 0, nb_bits |-> 0, pos |-> 0,
             max_pos |-> 0, error |-> 0, buf |-> <<>>]
NoReader == [range |-> 0, value |-> 0, bits |-> 0, eof |-> 0, buf |-> <<>>,
             pos |-> 0, buf_end |-> 0]
NoLWriter == [bits |-> 0, used |-> 0, buf |-> <<>>, cur |-> 0, end |-> 0, error |-> 0]
NoLReader == [val |-> 0, avail |-> 0, buf |-> <<>>, pos |-> 0, len |-> 0, eos |-> 0]

CallIdle ==
    /\ count = 0 /\ expected_size = 0 /\ idx = 0
    /\ out_buf = <<>> /\ out_size = -1 /\ ret = -1

BoolIdle ==
    /\ bits = <<>> /\ probs = <<>> /\ out_bits = <<>>
    /\ bw = NoWriter /\ br = NoReader

LosslessIdle ==
    /\ values = <<>> /\ nbits = <<>> /\ out_values = <<>>
    /\ lbw = NoLWriter /\ lbr = NoLReader

BitioIdle == CallIdle /\ BoolIdle /\ LosslessIdle

NoSplit == [range |-> 0, prob |-> 0, bit |-> 0, split |-> 0, shift |-> 0,
            out |-> 0]

NoTrace == [enc |-> <<>>, dec |-> <<>>]

NoBuf == [bytes |-> <<>>, live |-> FALSE]

LifeIdle ==
    /\ wrapper = "none" /\ wbuf = NoBuf /\ sz = -1 /\ log = <<>>

AuxIdle ==
    /\ calls = <<>> /\ slots = <<>>
    /\ trace = NoTrace
    /\ sp = NoSplit

----------------------------------------------------------------------------
(* Specification of the predictor bank: the caller picks the neighbours,   *)
(* then calls c_predictor.                                                 *)

InitPred ==
    /\ pc = "pred_ready"
    /\ left \in PixelSet
    /\ \E tl \in PixelSet, t \in PixelSet, tr \in TopRightSet :
           top = [k \in {-1, 0, 1} |-> IF k = -1 THEN tl ELSE IF k = 0 THEN t ELSE tr]
    /\ mode = 0
    /\ res = ZeroPixel
    /\ ColorIdle
    /\ BitioIdle
    /\ AuxIdle
    /\ LifeIdle

Predict ==
    /\ pc = "pred_ready"
    /\ \E k \in -1..14 :
           /\ mode' = k
           /\ res' = c_predictor(k, left, top)
    /\ pc' = "predicted"
    /\ UNCHANGED <<lifeVars, auxVars, left, top, colVars, callVars, boolVars, llVars>>

NextPred == Predict

SpecPred == InitPred /\ [][NextPred]_vars

----------------------------------------------------------------------------------------------------------------------------------------
(* Specification of the color transforms: the caller fills a buffer and    *)
(* runs subtract-green then add-green, or the forward color transform then *)
(* its inverse.                                                            *)

InitColor ==
    /\ pc = "col_ready"
    /\ m \in MultiplierSet
    /\ num_pixels \in 0..MaxPixels
    /\ orig \in { Append(s, Sentinel) : s \in SeqsOfLen(ColorPixelSet, num_pixels) }
    /\ argb_data = orig
    /\ dst = [i \in 1..(num_pixels + 1) |-> IF i <= num_pixels THEN ZeroPixel ELSE Sentinel]
    /\ PredIdle
    /\ BitioIdle
    /\ AuxIdle
    /\ LifeIdle

SubtractGreen ==
    /\ pc = "col_ready"
    /\ argb_data' = c_subtract_green(argb_data, num_pixels)
    /\ pc' = "sub_green"
    /\ UNCHANGED <<lifeVars, auxVars, m, num_pixels, orig, dst, predVars, callVars, boolVars, llVars>>

AddGreen ==
    /\ pc = "sub_green"
    /\ dst' = c_add_green(argb_data, num_pixels, dst)
    /\ pc' = "add_green"
    /\ UNCHANGED <<lifeVars, auxVars, m, num_pixels, orig, argb_data, predVars, callVars, boolVars, llVars>>

TransformColor ==
    /\ pc = "col_ready"
    /\ argb_data' = c_transform_color(m, argb_data, num_pixels)
    /\ pc' = "xform"
    /\ UNCHANGED <<lifeVars, auxVars, m, num_pixels, orig, dst, predVars, callVars, boolVars, llVars>>

TransformColorInverse ==
    /\ pc = "xform"
    /\ dst' = c_transform_color_inverse(m, argb_data, num_pixels, dst)
    /\ pc' = "xform_inv"
    /\ UNCHANGED <<lifeVars, auxVars, m, num_pixels, orig, argb_data, predVars, callVars, boolVars, llVars>>

NextColor == SubtractGreen \/ AddGreen \/ TransformColor \/ TransformColorInverse

SpecColor == InitColor /\ [][NextColor]_vars

----------------------------------------------------------------------------
(* Range coder, section 4.1.  range is the interval width, kept in         *)
(* 128..255 between calls; value holds the bits not yet written, nb_bits   *)
(* counts them (starting at -8), run counts the 0xff bytes held back until *)
(* a later carry is known; buf[1..pos] are the bytes written, max_pos is   *)
(* the capacity.  ok tells whether the allocator serves a request to grow. *)

\* number of left shifts that bring r back to 128 or more
RECURSIVE NormShift(_)
NormShift(r) == IF r >= 128 \/ r <= 0 THEN 0 ELSE 1 + NormShift(2 * r)

Max(a, b) == IF a >= b THEN a ELSE b

BitWriterResize(w, extra_size, ok) ==
    LET needed_size == w.pos + extra_size
    IN  IF needed_size <= w.max_pos THEN w
        ELSE IF ok THEN [w EXCEPT !.max_pos = Max(2 * w.max_pos, needed_size)]
        ELSE [w EXCEPT !.error = 1]

VP8BitWriterInit(size, ok) ==
    LET w0 == [range |-> 255, value |-> 0, run |-> 0, nb_bits |-> -8, pos |-> 0,
               max_pos |-> 0, error |-> 0, buf |-> <<>>]
        w1 == IF size > 0 THEN BitWriterResize(w0, size, ok) ELSE w0
    IN  [bw |-> w1, ret |-> IF w1.error = 0 THEN 1 ELSE 0]

Flush(w, ok) ==
    LET s    == 8 + w.nb_bits
        top8 == w.value \div Pow2(s)
        w1   == [w EXCEPT !.value = @ - top8 * Pow2(s), !.nb_bits = @ - 8]
    IN  IF top8 % 256 # 255
        THEN LET w2 == BitWriterResize(w1, w1.run + 1, ok)
                 carry == (top8 \div 256) % 2 = 1
                 buf1 == IF carry /\ w2.pos > 0
                         THEN [w2.buf EXCEPT ![w2.pos] = (@ + 1) % 256]
                         ELSE w2.buf
                 held == [k \in 1..w2.run |-> IF carry THEN 0 ELSE 255]
             IN  IF w2.error = 1 THEN w2
                 ELSE [w2 EXCEPT !.buf = buf1 \o held \o << top8 % 256 >>,
                                 !.pos = @ + w2.run + 1,
                                 !.run = 0]
        ELSE [w1 EXCEPT !.run = @ + 1]

\* the split taken from range instead of range - 1
VP8Split_NoMinusOne(range, prob) == 1 + ((range * prob) \div 256)

\* the size of the lower sub-range, the one coding a 0
VP8Split(range, prob) == 1 + (((range - 1) * prob) \div 256)

\* put_bit whose renormalisation stops one shift early
VP8PutBit_ShortShift(w, bit, prob, ok) ==
    IF w.error = 1 THEN w
    ELSE LET split  == VP8Split(w.range, prob)
             range1 == IF bit # 0 THEN w.range - split ELSE split
             value1 == IF bit # 0 THEN w.value + split ELSE w.value
             shift  == NormShift(2 * range1)
             w1     == [w EXCEPT !.range = range1 * Pow2(shift),
                                 !.value = value1 * Pow2(shift),
                                 !.nb_bits = @ + shift]
         IN  IF shift > 0 /\ w1.nb_bits > 0 THEN Flush(w1, ok) ELSE w1

\* put_bit whose test of the error flag never succeeds, so that it goes on
\* coding after an error
VP8PutBit_Unguarded(w, bit, prob, ok) ==
    IF w.error = 2 THEN w
    ELSE LET split  == VP8Split(w.range, prob)
             range1 == IF bit # 0 THEN w.range - split ELSE split
             value1 == IF bit # 0 THEN w.value + split ELSE w.value
             shift  == NormShift(range1)
             w1     == [w EXCEPT !.range = range1 * Pow2(shift),
                                 !.value = value1 * Pow2(shift),
                                 !.nb_bits = @ + shift]
         IN  IF shift > 0 /\ w1.nb_bits > 0 THEN Flush(w1, ok) ELSE w1

\* put_bit for a probability in 1..255; a call made after the error flag
\* was raised is a no-op (section 4.1)
VP8PutBit(w, bit, prob, ok) ==
    IF w.error = 1 THEN w
    ELSE LET split  == VP8Split(w.range, prob)
             range1 == IF bit # 0 THEN w.range - split ELSE split
             value1 == IF bit # 0 THEN w.value + split ELSE w.value
             shift  == NormShift(range1)
             w1     == [w EXCEPT !.range = range1 * Pow2(shift),
                                 !.value = value1 * Pow2(shift),
                                 !.nb_bits = @ + shift]
         IN  IF shift > 0 /\ w1.nb_bits > 0 THEN Flush(w1, ok) ELSE w1

\* n zero bits at even odds
RECURSIVE VP8PutBits(_, _, _)
VP8PutBits(w, n, ok) ==
    IF n <= 0 THEN w ELSE VP8PutBits(VP8PutBit(w, 0, 128, ok), n - 1, ok)

VP8BitWriterFinish(w, ok) ==
    IF w.error = 1 THEN w
    ELSE LET w1 == VP8PutBits(w, 9 - w.nb_bits, ok)
         IN  IF w1.error = 1 THEN w1 ELSE Flush([w1 EXCEPT !.nb_bits = 0], ok)

VP8BitWriterSize(w) == w.pos

\* number of renormalisation shifts a writer has made: every shift adds one
\* to nb_bits, every flush takes 8 off and adds a byte written or held back
EncShifts(w) == w.nb_bits + 8 + 8 * (w.pos + w.run)

VP8BitWriterWipeOut(w) == NoWriter

VP8LoadNewBytes(r) ==
    IF r.pos < r.buf_end
    THEN [r EXCEPT !.bits = @ + 8, !.value = r.buf[r.pos + 1] + r.value * 256,
                   !.pos = @ + 1]
    ELSE IF r.eof = 0
    THEN [r EXCEPT !.value = @ * 256, !.bits = @ + 8, !.eof = 1]
    ELSE [r EXCEPT !.bits = 0]

VP8InitBitReader(data, size) ==
    VP8LoadNewBytes([range |-> 255, value |-> 0, bits |-> -8, eof |-> 0,
                     buf |-> data, pos |-> 0, buf_end |-> size])

\* get_bit for a probability in 1..255
VP8GetBit(r, prob) ==
    LET r0     == IF r.bits < 0 THEN VP8LoadNewBytes(r) ELSE r
        pos    == r0.bits
        split  == VP8Split(r0.range, prob)
        value  == r0.value \div Pow2(pos)
        bit    == IF value >= split THEN 1 ELSE 0
        range1 == IF bit = 1 THEN r0.range - split ELSE split
        value1 == IF bit = 1 THEN r0.value - split * Pow2(pos) ELSE r0.value
        shift  == NormShift(range1)
    IN  [br |-> [r0 EXCEPT !.range = range1 * Pow2(shift), !.value = value1,
                           !.bits = pos - shift],
         bit |-> bit]

\* number of renormalisation shifts a reader has made: every shift takes
\* one off bits, every load (of a byte or of the zeros after the end) adds 8
DecShifts(r) == 8 * (r.pos + r.eof) - 8 - r.bits

----------------------------------------------------------------------------
(* Raw bit packer, section 4.2.  bits is the accumulator, used the number  *)
(* of pending bits in it; buf[1..cur] are the bytes written, end is the    *)
(* capacity.                                                               *)

VP8LBitWriterResize(w, extra_size, ok) ==
    LET size_required == w.cur + extra_size
    IN  IF w.end > 0 /\ size_required <= w.end THEN w
        ELSE IF ok THEN [w EXCEPT !.end = Max(2 * w.end, size_required)]
        ELSE [w EXCEPT !.error = 1]

VP8LBitWriterInit(size, ok) ==
    LET w1 == VP8LBitWriterResize(NoLWriter, size, ok)
    IN  [bw |-> w1, ret |-> IF w1.error = 0 THEN 1 ELSE 0]

\* while used >= 8: append the low byte and drop it from the accumulator
RECURSIVE LFlushBytes(_, _)
LFlushBytes(w, ok) ==
    IF w.used < 8 THEN w
    ELSE LET w1 == VP8LBitWriterResize(w, 1, ok)
         IN  IF w1.error = 1 THEN w1
             ELSE LFlushBytes([w1 EXCEPT !.buf = Append(@, w1.bits % 256),
                                         !.cur = @ + 1,
                                         !.bits = @ \div 256,
                                         !.used = @ - 8], ok)

\* put_bits that never moves a completed byte out of the accumulator
VP8LPutBits_NoFlush(w, value, n_bits, ok) ==
    IF w.error = 1 THEN w
    ELSE IF n_bits < 0 \/ n_bits > 24 THEN [w EXCEPT !.error = 1]
    ELSE [w EXCEPT !.bits = BitOr(@, (value % Pow2(n_bits)) * Pow2(w.used)),
                   !.used = @ + n_bits]

VP8LPutBits(w, value, n_bits, ok) ==
    IF w.error = 1 THEN w
    ELSE IF n_bits < 0 \/ n_bits > 24 THEN [w EXCEPT !.error = 1]
    ELSE LFlushBytes([w EXCEPT
             !.bits = BitOr(@, (value % Pow2(n_bits)) * Pow2(w.used)),
             !.used = @ + n_bits], ok)

VP8LBitWriterFinish(w, ok) ==
    IF w.error = 1 \/ w.used = 0 THEN w
    ELSE LET w1 == VP8LBitWriterResize(w, 1, ok)
         IN  IF w1.error = 1 THEN w1
             ELSE [w1 EXCEPT !.buf = Append(@, w1.bits % 256), !.cur = @ + 1,
                             !.bits = 0, !.used = 0]

VP8LBitWriterWipeOut(w) == NoLWriter

VP8LInitBitReader(data, size) ==
    [val |-> 0, avail |-> 0, buf |-> data, pos |-> 0, len |-> size, eos |-> 0]

\* take whole bytes until n_bits are available or the buffer is exhausted
RECURSIVE LRefill(_, _)
LRefill(r, n_bits) ==
    IF r.avail >= n_bits \/ r.pos >= r.len THEN r
    ELSE LRefill([r EXCEPT !.val = BitOr(@, r.buf[r.pos + 1] * Pow2(r.avail)),
                           !.avail = @ + 8,
                           !.pos = @ + 1], n_bits)

VP8LReadBits(r, n_bits) ==
    IF n_bits < 0 \/ n_bits > 24 THEN [br |-> [r EXCEPT !.eos = 1], val |-> 0]
    ELSE LET r1 == LRefill(r, n_bits)
         IN  [br |-> [r1 EXCEPT !.val = @ \div Pow2(n_bits),
                                !.avail = Max(@ - n_bits, 0),
                                !.eos = IF r1.avail < n_bits THEN 1 ELSE @],
              val |-> r1.val % Pow2(n_bits)]

----------------------------------------------------------------------------
(* The wrappers of bitio/wrapper.c, one definition per statement group *)

\* (size_t)(count + 256)
BoolInitSize(n) == n + 256

\* the write loop coding every bit with the first probability
c_bool_write_step_FirstProb(w, bs, ps, k, ok) == VP8PutBit(w, bs[k + 1], ps[1], ok)

\* VP8PutBit(&bw, bits[i], probs[i])
c_bool_write_step(w, bs, ps, k, ok) == VP8PutBit(w, bs[k + 1], ps[k + 1], ok)

\* the epilogue copying the bytes whatever the error flag says
c_bool_write_return_Unchecked(w, ob, os) ==
    [ret |-> 1, out_buf |-> SubSeq(w.buf, 1, VP8BitWriterSize(w)),
     out_size |-> VP8BitWriterSize(w)]

\* if (bw.error) return 0; memcpy(out_buf, buf, sz); *out_size = sz; return 1
c_bool_write_return(w, ob, os) ==
    IF w.error # 0
    THEN [ret |-> 0, out_buf |-> ob, out_size |-> os]
    ELSE [ret |-> 1, out_buf |-> SubSeq(w.buf, 1, VP8BitWriterSize(w)),
          out_size |-> VP8BitWriterSize(w)]

\* VP8InitBitReader(&br, data, (size_t)size)
c_bool_read_init(data, size) == VP8InitBitReader(data, size)

\* the read loop decoding every bit with the first probability
c_bool_read_step_FirstProb(r, ps, k) == VP8GetBit(r, ps[1])

\* out_bits[i] = VP8GetBit(&br, probs[i], "test")
c_bool_read_step(r, ps, k) == VP8GetBit(r, ps[k + 1])

\* (size_t)(count * 4 + 256)
LosslessInitSize(n) == n * 4 + 256

\* the write loop with value and width exchanged
c_lossless_write_step_Swapped(w, vs, ns, k, ok) == VP8LPutBits(w, ns[k + 1], vs[k + 1], ok)

\* VP8LPutBits(&bw, values[i], nbits[i])
c_lossless_write_step(w, vs, ns, k, ok) == VP8LPutBits(w, vs[k + 1], ns[k + 1], ok)

\* the epilogue copying the bytes whatever the error flag says
c_lossless_write_return_Unchecked(w, ob, os) ==
    [ret |-> 1, out_buf |-> SubSeq(w.buf, 1, w.cur), out_size |-> w.cur]

\* size_t sz = bw.cur - bw.buf; if (bw.error) return 0; memcpy; return 1
c_lossless_write_return(w, ob, os) ==
    IF w.error # 0
    THEN [ret |-> 0, out_buf |-> ob, out_size |-> os]
    ELSE [ret |-> 1, out_buf |-> SubSeq(w.buf, 1, w.cur), out_size |-> w.cur]

\* the reader told that the buffer is one byte longer than it is (the byte
\* after the buffer reading as 0)
c_lossless_read_init_OneTooMany(data, size) ==
    VP8LInitBitReader(data \o <<0>>, size + 1)

\* VP8LInitBitReader(&br, data, (size_t)size)
c_lossless_read_init(data, size) == VP8LInitBitReader(data, size)

\* the read loop reading every value with the first width
c_lossless_read_step_FirstWidth(r, ns, k) == VP8LReadBits(r, ns[1])

\* out_values[i] = VP8LReadBits(&br, nbits[i])
c_lossless_read_step(r, ns, k) == VP8LReadBits(r, ns[k + 1])

----------------------------------------------------------------------------
(* Inputs of the bit I/O specifications *)

\* longest (bit, probability) sequence coded
MaxCount == 5
\* the probabilities drawn: both ends of the range, their neighbour and even odds
ProbSet == {1, 128, 254, 255}

\* longest (bit, probability) sequence when the count argument may also be
\* negative or the coder is given a small size budget, and the largest such
\* budget
MaxCapCount == 4
MaxHint == 2

\* longest (value, nbits) sequence packed
MaxLCount == 3

\* longest buffer and longest call sequence when a reader is run on a
\* buffer of the caller's, and the bytes such a buffer is filled with
MaxData == 2
MaxReadCount == 3
DataByteSet == {0, 165, 255}
\* the widths drawn, and for a width the values drawn
NBitsSet == {0, 2, 3, 7, 8, 24}
ValuesFor(n) == {0, Pow2(n) - 1, 5 % Pow2(n)}
\* the widths drawn when the caller's nbits array is not restricted to 0..24
NBitsAnySet == NBitsSet \cup {-1, 25, 32}
ValuesAny(n) == IF n \in 0..24 THEN ValuesFor(n) ELSE {0, 5}

----------------------------------------------------------------------------
(* c_bool_write_sequence followed by c_bool_read_sequence on its output.   *)
(* The caller's arrays are drawn element by element as the loop reads them.*)

InitBool ==
    /\ pc = "bool_call"
    /\ count \in 0..MaxCount
    /\ expected_size = BoolInitSize(count)
    /\ idx = 0 /\ out_buf = <<>> /\ out_size = -1 /\ ret = -1
    /\ BoolIdle /\ LosslessIdle /\ PredIdle /\ ColorIdle
    /\ AuxIdle
    /\ LifeIdle

\* line 13
BoolWriterInit ==
    /\ pc = "bool_call"
    /\ \E ok \in BOOLEAN :
           LET r == VP8BitWriterInit(expected_size, ok)
           IN  /\ bw' = r.bw
               /\ ret' = IF r.ret = 0 THEN 0 ELSE ret
               /\ pc' = IF r.ret = 0 THEN "bool_ret" ELSE "bool_loop"
    /\ UNCHANGED <<lifeVars, auxVars, count, expected_size, idx, out_buf, out_size, bits, probs,
                   out_bits, br, predVars, colVars, llVars>>

\* lines 15-17, one iteration
BoolPutBit ==
    /\ pc = "bool_loop"
    /\ idx < count
    /\ \E b \in {0, 1}, p \in ProbSet, ok \in BOOLEAN :
           /\ bits' = Append(bits, b)
           /\ probs' = Append(probs, p)
           /\ bw' = c_bool_write_step(bw, bits', probs', idx, ok)
           /\ trace' = [trace EXCEPT !.enc = Append(@,
                           [range |-> bw'.range, split |-> VP8Split(bw.range, p),
                            shift |-> EncShifts(bw') - EncShifts(bw)])]
    /\ idx' = idx + 1
    /\ UNCHANGED <<lifeVars, calls, slots, sp, pc, count, expected_size, out_buf, out_size, ret, out_bits,
                   br, predVars, colVars, llVars>>

\* lines 18-19, reached when the loop condition i < count fails
BoolFinish ==
    /\ pc = "bool_loop"
    /\ idx >= count
    /\ \E ok \in BOOLEAN : bw' = VP8BitWriterFinish(bw, ok)
    /\ pc' = "bool_finished"
    /\ UNCHANGED <<lifeVars, auxVars, count, expected_size, idx, out_buf, out_size, ret, bits,
                   probs, out_bits, br, predVars, colVars, llVars>>

\* lines 21-29
BoolReturn ==
    /\ pc = "bool_finished"
    /\ LET r == c_bool_write_return(bw, out_buf, out_size)
       IN  /\ ret' = r.ret
           /\ out_buf' = r.out_buf
           /\ out_size' = r.out_size
    /\ bw' = VP8BitWriterWipeOut(bw)
    /\ pc' = "bool_ret"
    /\ UNCHANGED <<lifeVars, auxVars, count, expected_size, idx, bits, probs, out_bits, br,
                   predVars, colVars, llVars>>

\* lines 35-36, called on the bytes the write wrapper returned
BoolReaderInit ==
    /\ pc = "bool_ret"
    /\ ret = 1
    /\ br' = c_bool_read_init(out_buf, out_size)
    /\ idx' = 0
    /\ pc' = "bool_read"
    /\ UNCHANGED <<lifeVars, auxVars, count, expected_size, out_buf, out_size, ret, bits, probs,
                   out_bits, bw, predVars, colVars, llVars>>

\* lines 38-40, one iteration
BoolGetBit ==
    /\ pc = "bool_read"
    /\ idx < count
    /\ LET g == c_bool_read_step(br, probs, idx)
       IN  /\ br' = g.br
           /\ out_bits' = Append(out_bits, g.bit)
           /\ idx' = idx + 1
           /\ trace' = [trace EXCEPT !.dec = Append(@,
                           [range |-> g.br.range,
                            split |-> VP8Split(br.range, probs[idx + 1]),
                            shift |-> DecShifts(g.br) - DecShifts(br)])]
    /\ UNCHANGED <<lifeVars, calls, slots, sp, pc, count, expected_size, out_buf, out_size, ret, bits,
                   probs, bw, predVars, colVars, llVars>>

NextBool ==
    \/ BoolWriterInit \/ BoolPutBit \/ BoolFinish \/ BoolReturn
    \/ BoolReaderInit \/ BoolGetBit

SpecBool == InitBool /\ [][NextBool]_vars

----------------------------------------------------------------------------
(* c_bool_write_sequence called with a count that may be negative: the     *)
(* capacity hint of line 13 is count + 256 whatever the count, so the      *)
(* counts -256, -255 and -254 start the writer with a budget of 0, 1 and 2 *)
(* bytes; the loop of lines 15-17 does not run for them and the two bytes  *)
(* VP8BitWriterFinish writes are what outgrows the budget.                 *)

InitBoolCap ==
    /\ pc = "bool_call"
    /\ count \in (-256..-254) \cup (0..MaxCapCount)
    /\ expected_size = BoolInitSize(count)
    /\ idx = 0 /\ out_buf = <<>> /\ out_size = -1 /\ ret = -1
    /\ BoolIdle /\ LosslessIdle /\ PredIdle /\ ColorIdle
    /\ AuxIdle
    /\ LifeIdle

(* The range coder used through its contract of section 4.1 by a caller   *)
(* of its own: init with a size budget of the caller's choice, put_bit any *)
(* number of times, then finish, the allocator free to refuse any growth.  *)
(* expected_size is the budget, idx counts the put_bit calls made.         *)

InitCoder ==
    /\ pc = "coder_call"
    /\ expected_size \in 1..MaxHint
    /\ count = 0 /\ idx = 0 /\ out_buf = <<>> /\ out_size = -1 /\ ret = -1
    /\ BoolIdle /\ LosslessIdle /\ PredIdle /\ ColorIdle
    /\ AuxIdle
    /\ LifeIdle

\* init(capacity_hint)
CoderInit ==
    /\ pc = "coder_call"
    /\ \E ok \in BOOLEAN : bw' = VP8BitWriterInit(expected_size, ok).bw
    /\ pc' = "coder_ready"
    /\ UNCHANGED <<lifeVars, auxVars, callVars, bits, probs, out_bits, br,
                   predVars, colVars, llVars>>

\* put_bit(coder, bit, probability), whatever the error flag says
CoderPutBit ==
    /\ pc = "coder_ready"
    /\ idx < MaxCapCount
    /\ \E b \in {0, 1}, p \in ProbSet, ok \in BOOLEAN :
           /\ bits' = Append(bits, b)
           /\ probs' = Append(probs, p)
           /\ bw' = VP8PutBit(bw, b, p, ok)
    /\ idx' = idx + 1
    /\ UNCHANGED <<lifeVars, auxVars, pc, count, expected_size, out_buf, out_size,
                   ret, out_bits, br, predVars, colVars, llVars>>

\* finish(coder), whatever the error flag says
CoderFinish ==
    /\ pc = "coder_ready"
    /\ \E ok \in BOOLEAN : bw' = VP8BitWriterFinish(bw, ok)
    /\ pc' = "coder_finished"
    /\ UNCHANGED <<lifeVars, auxVars, callVars, bits, probs, out_bits, br,
                   predVars, colVars, llVars>>

InitCap == InitBoolCap \/ InitCoder

NextCap ==
    \/ BoolWriterInit \/ BoolPutBit \/ BoolFinish \/ BoolReturn
    \/ CoderInit \/ CoderPutBit \/ CoderFinish

SpecCap == InitCap /\ [][NextCap]_vars

----------------------------------------------------------------------------
(* c_lossless_write_sequence followed by c_lossless_read_sequence on its   *)
(* output.                                                                 *)

InitLossless ==
    /\ pc = "ll_call"
    /\ count \in 0..MaxLCount
    /\ expected_size = LosslessInitSize(count)
    /\ idx = 0 /\ out_buf = <<>> /\ out_size = -1 /\ ret = -1
    /\ BoolIdle /\ LosslessIdle /\ PredIdle /\ ColorIdle
    /\ AuxIdle
    /\ LifeIdle

\* line 47
LosslessWriterInit ==
    /\ pc = "ll_call"
    /\ \E ok \in BOOLEAN :
           LET r == VP8LBitWriterInit(expected_size, ok)
           IN  /\ lbw' = r.bw
               /\ ret' = IF r.ret = 0 THEN 0 ELSE ret
               /\ pc' = IF r.ret = 0 THEN "ll_ret" ELSE "ll_loop"
    /\ UNCHANGED <<lifeVars, auxVars, count, expected_size, idx, out_buf, out_size, values, nbits,
                   out_values, lbr, predVars, colVars, boolVars>>

\* lines 49-51, one iteration
LosslessPutBits ==
    /\ pc = "ll_loop"
    /\ idx < count
    /\ \E n \in NBitsSet, ok \in BOOLEAN :
         \E v \in ValuesFor(n) :
           /\ values' = Append(values, v)
           /\ nbits' = Append(nbits, n)
           /\ lbw' = c_lossless_write_step(lbw, values', nbits', idx, ok)
    /\ idx' = idx + 1
    /\ UNCHANGED <<lifeVars, auxVars, pc, count, expected_size, out_buf, out_size, ret, out_values,
                   lbr, predVars, colVars, boolVars>>

\* line 52
LosslessFinish ==
    /\ pc = "ll_loop"
    /\ idx = count
    /\ \E ok \in BOOLEAN : lbw' = VP8LBitWriterFinish(lbw, ok)
    /\ pc' = "ll_finished"
    /\ UNCHANGED <<lifeVars, auxVars, count, expected_size, idx, out_buf, out_size, ret, values,
                   nbits, out_values, lbr, predVars, colVars, boolVars>>

\* lines 53-63
LosslessReturn ==
    /\ pc = "ll_finished"
    /\ LET r == c_lossless_write_return(lbw, out_buf, out_size)
       IN  /\ ret' = r.ret
           /\ out_buf' = r.out_buf
           /\ out_size' = r.out_size
    /\ lbw' = VP8LBitWriterWipeOut(lbw)
    /\ pc' = "ll_ret"
    /\ UNCHANGED <<lifeVars, auxVars, count, expected_size, idx, values, nbits, out_values, lbr,
                   predVars, colVars, boolVars>>

\* lines 70-71, called on the bytes the write wrapper returned
LosslessReaderInit ==
    /\ pc = "ll_ret"
    /\ ret = 1
    /\ lbr' = c_lossless_read_init(out_buf, out_size)
    /\ idx' = 0
    /\ pc' = "ll_read"
    /\ UNCHANGED <<lifeVars, auxVars, count, expected_size, out_buf, out_size, ret, values, nbits,
                   out_values, lbw, predVars, colVars, boolVars>>

\* lines 73-75, one iteration
LosslessReadBits ==
    /\ pc = "ll_read"
    /\ idx < count
    /\ LET g == c_lossless_read_step(lbr, nbits, idx)
       IN  /\ lbr' = g.br
           /\ out_values' = Append(out_values, g.val)
    /\ idx' = idx + 1
    /\ UNCHANGED <<lifeVars, auxVars, pc, count, expected_size, out_buf, out_size, ret, values,
                   nbits, lbw, predVars, colVars, boolVars>>

NextLossless ==
    \/ LosslessWriterInit \/ LosslessPutBits \/ LosslessFinish \/ LosslessReturn
    \/ LosslessReaderInit \/ LosslessReadBits

SpecLossless == InitLossless /\ [][NextLossless]_vars

----------------------------------------------------------------------------
(* c_lossless_write_sequence called with any widths in its nbits array.    *)

\* lines 49-51, one iteration
LosslessPutBitsAny ==
    /\ pc = "ll_loop"
    /\ idx < count
    /\ \E n \in NBitsAnySet, ok \in BOOLEAN :
         \E v \in ValuesAny(n) :
           /\ values' = Append(values, v)
           /\ nbits' = Append(nbits, n)
           /\ lbw' = c_lossless_write_step(lbw, values', nbits', idx, ok)
    /\ idx' = idx + 1
    /\ UNCHANGED <<lifeVars, auxVars, pc, count, expected_size, out_buf, out_size, ret, out_values,
                   lbr, predVars, colVars, boolVars>>

NextLosslessAny ==
    LosslessWriterInit \/ LosslessPutBitsAny \/ LosslessFinish \/ LosslessReturn

SpecLosslessAny == InitLossless /\ [][NextLosslessAny]_vars

----------------------------------------------------------------------------
(* c_bool_read_sequence and c_lossless_read_sequence called on a buffer of *)
(* the caller's (out_buf, out_size stand for data, size), with any number  *)
(* of reads, also more than the buffer holds.                              *)

InitRead ==
    /\ pc = "rd_call"
    /\ count \in 0..MaxReadCount
    /\ \E len \in 0..MaxData : out_buf \in SeqsOfLen(DataByteSet, len)
    /\ out_size = Len(out_buf)
    /\ expected_size = 0 /\ idx = 0 /\ ret = -1
    /\ BoolIdle /\ LosslessIdle /\ PredIdle /\ ColorIdle
    /\ AuxIdle
    /\ LifeIdle

\* bitio/wrapper.c lines 35-36
ReadBoolInit ==
    /\ pc = "rd_call"
    /\ br' = c_bool_read_init(out_buf, out_size)
    /\ pc' = "rd_bool"
    /\ UNCHANGED <<lifeVars, auxVars, count, expected_size, idx, out_buf, out_size, ret, bits, probs,
                   out_bits, bw, predVars, colVars, llVars>>

\* bitio/wrapper.c lines 38-40, one iteration
ReadGetBit ==
    /\ pc = "rd_bool"
    /\ idx < count
    /\ \E p \in ProbSet :
           /\ probs' = Append(probs, p)
           /\ LET g == c_bool_read_step(br, probs', idx)
              IN  /\ br' = g.br
                  /\ out_bits' = Append(out_bits, g.bit)
    /\ idx' = idx + 1
    /\ UNCHANGED <<lifeVars, auxVars, pc, count, expected_size, out_buf, out_size, ret, bits, bw,
                   predVars, colVars, llVars>>

\* bitio/wrapper.c lines 70-71
ReadLInit ==
    /\ pc = "rd_call"
    /\ lbr' = c_lossless_read_init(out_buf, out_size)
    /\ pc' = "rd_ll"
    /\ UNCHANGED <<lifeVars, auxVars, count, expected_size, idx, out_buf, out_size, ret, values,
                   nbits, out_values, lbw, predVars, colVars, boolVars>>

\* bitio/wrapper.c lines 73-75, one iteration
ReadLBits ==
    /\ pc = "rd_ll"
    /\ idx < count
    /\ \E n \in NBitsSet :
           /\ nbits' = Append(nbits, n)
           /\ LET g == c_lossless_read_step(lbr, nbits', idx)
              IN  /\ lbr' = g.br
                  /\ out_values' = Append(out_values, g.val)
    /\ idx' = idx + 1
    /\ UNCHANGED <<lifeVars, auxVars, pc, count, expected_size, out_buf, out_size, ret, values,
                   lbw, predVars, colVars, boolVars>>

NextRead == ReadBoolInit \/ ReadGetBit \/ ReadLInit \/ ReadLBits

SpecRead == InitRead /\ [][NextRead]_vars

----------------------------------------------------------------------------------------------------------------------------------------
(* Two callers running concurrently, each calling a write wrapper and then *)
(* the read wrapper on the bytes it got, both with the range coder or both *)
(* with the bit packer, interleaved statement by statement.  calls[c]      *)
(* holds the arguments and locals of caller c (arg1, arg2 are bits, probs  *)
(* or values, nbits; out is out_bits or out_values), slots[s] the storage  *)
(* of a writer (w) and of a reader (r).                                    *)

Calls == {1, 2}

\* longest sequence written by each of the two callers
MaxTwoCount == 2
\* the (bit, probability) and (value, nbits) pairs the two callers draw from
TwoInputs(kind) ==
    IF kind = "bool" THEN {<<0, 128>>, <<1, 128>>, <<1, 1>>}
    ELSE {<<5, 3>>, <<5, 8>>, <<255, 8>>}

\* one writer and one reader shared by every call (static bw, static br)
LocalSlot_Static(c) == 1

\* bw and br are automatic variables of each call (lines 12, 34, 46, 69)
LocalSlot(c) == c

\* line 13 / line 47
TwoWriterInit(kind, n, ok) ==
    IF kind = "bool" THEN VP8BitWriterInit(BoolInitSize(n), ok)
    ELSE VP8LBitWriterInit(LosslessInitSize(n), ok)

\* lines 15-17 / lines 49-51, one iteration (the size asked for at init is
\* never outgrown, so the allocator is not called again)
TwoWriteStep(kind, w, a1, a2, k) ==
    IF kind = "bool" THEN c_bool_write_step(w, a1, a2, k, TRUE)
    ELSE c_lossless_write_step(w, a1, a2, k, TRUE)

\* lines 18-29 / lines 52-63 without the wipe-out
TwoWriteReturn(kind, w, ob, os) ==
    IF kind = "bool" THEN c_bool_write_return(VP8BitWriterFinish(w, TRUE), ob, os)
    ELSE c_lossless_write_return(VP8LBitWriterFinish(w, TRUE), ob, os)

TwoWipeOut(kind, w) ==
    IF kind = "bool" THEN VP8BitWriterWipeOut(w) ELSE VP8LBitWriterWipeOut(w)

\* lines 35-36 / lines 70-71
TwoReaderInit(kind, data, size) ==
    IF kind = "bool" THEN c_bool_read_init(data, size)
    ELSE c_lossless_read_init(data, size)

\* lines 38-40 / lines 73-75, one iteration
TwoReadStep(kind, r, a2, k) ==
    IF kind = "bool"
    THEN LET g == c_bool_read_step(r, a2, k) IN [br |-> g.br, val |-> g.bit]
    ELSE c_lossless_read_step(r, a2, k)

InitTwo ==
    /\ pc = "two"
    /\ \E kind \in {"bool", "lossless"}, n1 \in 0..MaxTwoCount, n2 \in 0..MaxTwoCount :
           /\ calls = [c \in Calls |->
                         [kind |-> kind, pc |-> "call",
                          count |-> IF c = 1 THEN n1 ELSE n2, idx |-> 0,
                          arg1 |-> <<>>, arg2 |-> <<>>,
                          out_buf |-> <<>>, out_size |-> -1, ret |-> -1,
                          out |-> <<>>]]
           /\ slots = [c \in Calls |->
                         IF kind = "bool" THEN [w |-> NoWriter, r |-> NoReader]
                         ELSE [w |-> NoLWriter, r |-> NoLReader]]
    /\ LifeIdle
    /\ trace = NoTrace /\ sp = NoSplit
    /\ PredIdle /\ ColorIdle /\ BitioIdle

TwoInit(c) ==
    /\ calls[c].pc = "call"
    /\ \E ok \in BOOLEAN :
           LET r == TwoWriterInit(calls[c].kind, calls[c].count, ok)
           IN  /\ slots' = [slots EXCEPT ![LocalSlot(c)].w = r.bw]
               /\ calls' = [calls EXCEPT
                              ![c].pc = IF r.ret = 0 THEN "ret" ELSE "loop",
                              ![c].ret = IF r.ret = 0 THEN 0 ELSE @]
    /\ UNCHANGED <<lifeVars, pc, predVars, colVars, callVars, boolVars, llVars, trace, sp>>

TwoPut(c) ==
    /\ calls[c].pc = "loop"
    /\ calls[c].idx < calls[c].count
    /\ \E in \in TwoInputs(calls[c].kind) :
           LET a1 == Append(calls[c].arg1, in[1])
               a2 == Append(calls[c].arg2, in[2])
           IN  /\ slots' = [slots EXCEPT ![LocalSlot(c)].w =
                               TwoWriteStep(calls[c].kind, @, a1, a2, calls[c].idx)]
               /\ calls' = [calls EXCEPT ![c].arg1 = a1, ![c].arg2 = a2,
                                         ![c].idx = @ + 1]
    /\ UNCHANGED <<lifeVars, pc, predVars, colVars, callVars, boolVars, llVars, trace, sp>>

TwoReturn(c) ==
    /\ calls[c].pc = "loop"
    /\ calls[c].idx = calls[c].count
    /\ LET r == TwoWriteReturn(calls[c].kind, slots[LocalSlot(c)].w,
                               calls[c].out_buf, calls[c].out_size)
       IN  calls' = [calls EXCEPT ![c].pc = "ret", ![c].ret = r.ret,
                                  ![c].out_buf = r.out_buf,
                                  ![c].out_size = r.out_size]
    /\ slots' = [slots EXCEPT ![LocalSlot(c)].w = TwoWipeOut(calls[c].kind, @)]
    /\ UNCHANGED <<lifeVars, pc, predVars, colVars, callVars, boolVars, llVars, trace, sp>>

TwoReadInit(c) ==
    /\ calls[c].pc = "ret"
    /\ calls[c].ret = 1
    /\ slots' = [slots EXCEPT ![LocalSlot(c)].r =
                    TwoReaderInit(calls[c].kind, calls[c].out_buf, calls[c].out_size)]
    /\ calls' = [calls EXCEPT ![c].pc = "read", ![c].idx = 0]
    /\ UNCHANGED <<lifeVars, pc, predVars, colVars, callVars, boolVars, llVars, trace, sp>>

TwoRead(c) ==
    /\ calls[c].pc = "read"
    /\ calls[c].idx < calls[c].count
    /\ LET g == TwoReadStep(calls[c].kind, slots[LocalSlot(c)].r,
                            calls[c].arg2, calls[c].idx)
       IN  /\ slots' = [slots EXCEPT ![LocalSlot(c)].r = g.br]
           /\ calls' = [calls EXCEPT ![c].out = Append(@, g.val),
                                     ![c].idx = @ + 1]
    /\ UNCHANGED <<lifeVars, pc, predVars, colVars, callVars, boolVars, llVars, trace, sp>>

NextTwo ==
    \E c \in Calls :
        TwoInit(c) \/ TwoPut(c) \/ TwoReturn(c) \/ TwoReadInit(c) \/ TwoRead(c)

SpecTwo == InitTwo /\ [][NextTwo]_vars

----------------------------------------------------------------------------
(* One coding step of the range coder, from any range of the band with any *)
(* probability and bit: put_bit is applied to a writer holding that range. *)

InitSplit ==
    /\ pc = "split_ready"
    /\ \E r \in 128..255, p \in 1..255, b \in {0, 1} :
           sp = [range |-> r, prob |-> p, bit |-> b, split |-> 0, shift |-> 0,
                 out |-> 0]
    /\ LifeIdle
    /\ calls = <<>> /\ slots = <<>> /\ trace = NoTrace
    /\ PredIdle /\ ColorIdle /\ BitioIdle

CodeStep ==
    /\ pc = "split_ready"
    /\ LET w0 == [VP8BitWriterInit(1, TRUE).bw EXCEPT !.range = sp.range]
           w1 == VP8PutBit(w0, sp.bit, sp.prob, TRUE)
       IN  sp' = [sp EXCEPT !.split = VP8Split(sp.range, sp.prob),
                            !.shift = EncShifts(w1) - EncShifts(w0),
                            !.out = w1.range]
    /\ pc' = "split_done"
    /\ UNCHANGED <<lifeVars, predVars, colVars, callVars, boolVars, llVars, calls, slots, trace>>

NextSplit == CodeStep

SpecSplit == InitSplit /\ [][NextSplit]_vars

----------------------------------------------------------------------------
(* One call of c_bool_write_sequence or of c_lossless_write_sequence taken *)
(* statement by statement.  pc is the statement about to run, the writer   *)
(* is bw or lbw, the arguments are bits, probs or values, nbits, and log   *)
(* records every statement executed.  The error branch is taken too: by    *)
(* c_lossless_write_sequence when nbits holds a width the writer refuses,  *)
(* by c_bool_write_sequence when count is -255, which makes the budget of  *)
(* line 13 one byte, and the allocator refuses to grow it for finish.      *)

\* longest sequence written
MaxLifeCount == 3
\* the (bit, probability) and (value, nbits) pairs drawn
LifeInputs(kind) ==
    IF kind = "bool" THEN {<<0, 128>>, <<1, 1>>, <<1, 254>>}
    ELSE {<<5, 3>>, <<255, 8>>, <<5, 25>>}

\* the statement after `at` with the copy moved behind the wipe-out
WriteNext_WipeFirst(at, failed) ==
    CASE at = "init"     -> IF failed THEN "ret0" ELSE "loop"
      [] at = "finish"   -> IF failed THEN "wipe_err" ELSE "wipe_ok"
      [] at = "wipe_err" -> "ret0"
      [] at = "wipe_ok"  -> "copy"
      [] at = "copy"     -> "ret1"
      [] OTHER           -> "done"

\* the statement after `at`: line 13 / 47 returns 0 when init failed and
\* enters the loop otherwise; finish and the size (18-19 / 52-53) are
\* followed by the wipe-out and return 0 when the error flag is set
\* (21-24 / 55-58), else by the copy, the wipe-out and return 1 (26-29 /
\* 60-63)
WriteNext(at, failed) ==
    CASE at = "init"     -> IF failed THEN "ret0" ELSE "loop"
      [] at = "finish"   -> IF failed THEN "wipe_err" ELSE "copy"
      [] at = "wipe_err" -> "ret0"
      [] at = "copy"     -> "wipe_ok"
      [] at = "wipe_ok"  -> "ret1"
      [] OTHER           -> "done"

\* line 18 / line 52
LifeWriterFinish(kind, w, ok) ==
    IF kind = "bool" THEN VP8BitWriterFinish(w, ok) ELSE VP8LBitWriterFinish(w, ok)

\* line 19 / line 53
LifeWriterSize(kind, w) == IF kind = "bool" THEN VP8BitWriterSize(w) ELSE w.cur

TheWriter == IF wrapper = "bool" THEN bw ELSE lbw

SetWriter(w) ==
    IF wrapper = "bool" THEN bw' = w /\ lbw' = lbw ELSE lbw' = w /\ bw' = bw

\* what memcpy can leave in out_buf when it reads n bytes of freed memory
FreedReads(n) == {[k \in 1..n |-> b] : b \in {0, 221}}

InitLife ==
    /\ pc = "init"
    /\ wrapper \in {"bool", "lossless"}
    /\ count \in (IF wrapper = "bool" THEN {-255} ELSE {}) \cup (0..MaxLifeCount)
    /\ expected_size = (IF wrapper = "bool" THEN BoolInitSize(count)
                        ELSE LosslessInitSize(count))
    /\ idx = 0 /\ out_buf = <<>> /\ out_size = -1 /\ ret = -1
    /\ wbuf = NoBuf /\ sz = -1 /\ log = <<>>
    /\ BoolIdle /\ LosslessIdle /\ PredIdle /\ ColorIdle
    /\ AuxIdle

\* line 13 / line 47
LifeInit ==
    /\ pc = "init"
    /\ \E ok \in BOOLEAN :
           LET r == TwoWriterInit(wrapper, count, ok)
           IN  /\ SetWriter(r.bw)
               /\ pc' = WriteNext(pc, r.ret = 0)
               /\ log' = Append(log, IF r.ret = 0 THEN "init_failed" ELSE "init")
    /\ UNCHANGED <<auxVars, predVars, colVars, callVars, bits, probs, out_bits,
                   br, values, nbits, out_values, lbr, wrapper, wbuf, sz>>

\* lines 15-17 / lines 49-51, one iteration
LifePut ==
    /\ pc = "loop"
    /\ idx < count
    /\ \E in \in LifeInputs(wrapper) :
           LET a1 == Append(IF wrapper = "bool" THEN bits ELSE values, in[1])
               a2 == Append(IF wrapper = "bool" THEN probs ELSE nbits, in[2])
           IN  /\ IF wrapper = "bool"
                  THEN bits' = a1 /\ probs' = a2 /\ UNCHANGED <<values, nbits>>
                  ELSE values' = a1 /\ nbits' = a2 /\ UNCHANGED <<bits, probs>>
               /\ SetWriter(TwoWriteStep(wrapper, TheWriter, a1, a2, idx))
    /\ idx' = idx + 1
    /\ log' = Append(log, "put")
    /\ UNCHANGED <<auxVars, predVars, colVars, pc, count, expected_size, out_buf,
                   out_size, ret, out_bits, br, out_values, lbr, wrapper, wbuf, sz>>

\* lines 18-19 / lines 52-53, and the test of bw.error at line 21 / 55
LifeFinish ==
    /\ pc = "loop"
    /\ idx >= count
    /\ \E ok \in BOOLEAN :
           LET w == LifeWriterFinish(wrapper, TheWriter, ok)
           IN  /\ SetWriter(w)
               /\ wbuf' = [bytes |-> w.buf, live |-> TRUE]
               /\ sz' = LifeWriterSize(wrapper, w)
               /\ pc' = WriteNext("finish", w.error # 0)
    /\ log' = Append(log, "finish")
    /\ UNCHANGED <<auxVars, predVars, colVars, callVars, bits, probs, out_bits,
                   br, values, nbits, out_values, lbr, wrapper>>

\* lines 26-27 / lines 60-61; reading freed memory gives any bytes
LifeCopy ==
    /\ pc = "copy"
    /\ IF wbuf.live THEN out_buf' = SubSeq(wbuf.bytes, 1, sz)
       ELSE out_buf' \in FreedReads(sz)
    /\ out_size' = sz
    /\ pc' = WriteNext(pc, FALSE)
    /\ log' = Append(log, "copy")
    /\ UNCHANGED <<auxVars, predVars, colVars, count, expected_size, idx, ret,
                   boolVars, llVars, wrapper, wbuf, sz>>

\* line 22 or 28 / line 56 or 62
LifeWipeOut ==
    /\ pc \in {"wipe_err", "wipe_ok"}
    /\ SetWriter(TwoWipeOut(wrapper, TheWriter))
    /\ wbuf' = [wbuf EXCEPT !.live = FALSE]
    /\ pc' = WriteNext(pc, FALSE)
    /\ log' = Append(log, "wipe")
    /\ UNCHANGED <<auxVars, predVars, colVars, callVars, bits, probs, out_bits,
                   br, values, nbits, out_values, lbr, wrapper, sz>>

\* the return statements: line 13, 23 or 29 / line 47, 57 or 63
LifeReturn ==
    /\ pc \in {"ret0", "ret1"}
    /\ ret' = IF pc = "ret1" THEN 1 ELSE 0
    /\ pc' = WriteNext(pc, FALSE)
    /\ log' = Append(log, "return")
    /\ UNCHANGED <<auxVars, predVars, colVars, count, expected_size, idx, out_buf,
                   out_size, boolVars, llVars, wrapper, wbuf, sz>>

NextLife ==
    LifeInit \/ LifePut \/ LifeFinish \/ LifeCopy \/ LifeWipeOut \/ LifeReturn

SpecLife == InitLife /\ [][NextLife]_vars

----------------------------------------------------------------------------
(* Properties of the color transforms (checked under SpecColor) *)

Pixels == 1..num_pixels

\* C3: after c_transform_color followed by c_transform_color_inverse with
\* the same multipliers, every pixel equals the original pixel on all four
\* channels.
C3_ColorTransformRoundTrip ==
    pc = "xform_inv" => \A i \in Pixels : dst[i] = orig[i]

\* a round trip in which the forward transform changed red and blue and the
\* red_to_blue delta differs between the original and the transformed red
C3_Witness ==
    /\ pc = "xform_inv"
    /\ num_pixels >= 1
    /\ argb_data[1][2] # orig[1][2]
    /\ argb_data[1][4] # orig[1][4]
    /\ ColorTransformDelta(Int8(m.red_to_blue), Int8(orig[1][2]))
         # ColorTransformDelta(Int8(m.red_to_blue), Int8(argb_data[1][2]))
    /\ dst[1] = orig[1]

\* C4: c_subtract_green replaces red and blue by (red - green) mod 256 and
\* (blue - green) mod 256 and leaves alpha and green alone; c_add_green
\* applied to that result restores every pixel exactly.
C4_GreenRoundTrip ==
    /\ pc = "sub_green" =>
           \A i \in Pixels :
               argb_data[i] = << orig[i][1], (orig[i][2] - orig[i][3]) % 256,
                                 orig[i][3], (orig[i][4] - orig[i][3]) % 256 >>
    /\ pc = "add_green" => \A i \in Pixels : dst[i] = orig[i]

\* a restored pixel whose red subtraction borrowed and whose blue addition
\* carried
C4_Witness ==
    /\ pc = "add_green"
    /\ num_pixels >= 1
    /\ orig[1][2] < orig[1][3]
    /\ argb_data[1][4] + argb_data[1][3] >= 256
    /\ dst[1] = orig[1]

----------------------------------------------------------------------------
(* Properties of the predictors (checked under SpecPred) *)

SatClamp(x) == IF x < 0 THEN 0 ELSE IF x > 255 THEN 255 ELSE x

TruncHalf(x) == IF x >= 0 THEN x \div 2 ELSE -((-x) \div 2)

Dist(p, q) == Abs(p[1] - q[1]) + Abs(p[2] - q[2]) + Abs(p[3] - q[3]) + Abs(p[4] - q[4])

\* C6 as stated: mode 11 returns top if the sum over the channels of
\* |top - topleft| - |left - topleft| is <= 0, otherwise left.
C6_SelectAsClaimed ==
    (pc = "predicted" /\ mode = 11) =>
        res = IF Dist(top[0], top[-1]) - Dist(left, top[-1]) <= 0 THEN top[0] ELSE left

\* C6 amended: mode 11 returns top if the sum over the channels of
\* |left - topleft| - |top - topleft| is <= 0, otherwise left.
C6_SelectAmended ==
    (pc = "predicted" /\ mode = 11) =>
        res = IF Dist(left, top[-1]) - Dist(top[0], top[-1]) <= 0 THEN top[0] ELSE left

\* mode 11 returned left, top being strictly closer to top-left
C6_Witness ==
    /\ pc = "predicted" /\ mode = 11
    /\ Dist(top[0], top[-1]) < Dist(left, top[-1])
    /\ left # top[0]
    /\ res = left

\* C7: every lane of Average2(left, top) (mode 7) is the floor of the mean
\* of the two lanes; in particular avg2(0, 0xFFFFFFFF) = 0x7F7F7F7F,
\* avg2(0,0) = 0 and avg2(0xFFFFFFFF, 0xFFFFFFFF) = 0xFFFFFFFF.
C7_Average2Lanes ==
    (pc = "predicted" /\ mode = 7) =>
        /\ \A i \in 1..4 : res[i] = (left[i] + top[0][i]) \div 2
        /\ (left = ZeroPixel /\ top[0] = ZeroPixel) => res = ZeroPixel
        /\ (left = <<255, 255, 255, 255>> /\ top[0] = <<255, 255, 255, 255>>)
               => res = <<255, 255, 255, 255>>
        /\ (left = ZeroPixel /\ top[0] = <<255, 255, 255, 255>>)
               => res = <<127, 127, 127, 127>>

\* avg2(0x00000000, 0xFFFFFFFF) = 0x7F7F7F7F: every lane sum is odd
C7_Witness ==
    /\ pc = "predicted" /\ mode = 7
    /\ left = ZeroPixel /\ top[0] = <<255, 255, 255, 255>>
    /\ res = <<127, 127, 127, 127>>

\* C8: every lane of mode 13 is clip255(a + (a - b)/2) with a the floor
\* mean of the left and top lanes, b the top-left lane and the division
\* truncating toward zero; the result lies in 0..255.
C8_HalfLanes ==
    (pc = "predicted" /\ mode = 13) =>
        \A i \in 1..4 :
            LET a == (left[i] + top[0][i]) \div 2
                b == top[-1][i]
            IN  /\ res[i] = SatClamp(a + TruncHalf(a - b))
                /\ res[i] \in 0..255

\* a lane with a - b negative and odd whose result is not clamped
C8_Witness ==
    /\ pc = "predicted" /\ mode = 13
    /\ \E i \in 1..4 :
           LET a == (left[i] + top[0][i]) \div 2
               b == top[-1][i]
           IN  /\ a - b < 0 /\ (a - b) % 2 = 1
               /\ res[i] = a + TruncHalf(a - b)
               /\ res[i] \in 1..254

\* C9: every lane of mode 12 is max(0, min(255, left + top - topleft)),
\* also when the intermediate value is negative or above 255.
C9_FullLanes ==
    (pc = "predicted" /\ mode = 12) =>
        \A i \in 1..4 : res[i] = SatClamp(left[i] + top[0][i] - top[-1][i])

\* one result with a lane clamped from below, one clamped from above and
\* one inside the range
C9_Witness ==
    /\ pc = "predicted" /\ mode = 12
    /\ \E i \in 1..4 : left[i] + top[0][i] - top[-1][i] < 0 /\ res[i] = 0
    /\ \E i \in 1..4 : left[i] + top[0][i] - top[-1][i] > 255 /\ res[i] = 255
    /\ \E i \in 1..4 : left[i] + top[0][i] - top[-1][i] \in 1..254

----------------------------------------------------------------------------
(* Properties of the range coder wrappers (checked under SpecBool) *)

\* C1: the write wrapper succeeds whenever the writer could be allocated,
\* and every bit c_bool_read_sequence decodes from the returned bytes with
\* the same probabilities equals the bit encoded at that position (for the
\* empty sequence too).
C1_BoolRoundTrip ==
    /\ (pc = "bool_ret" /\ ret = 0) => (bw.error = 1 /\ idx = 0)
    /\ pc = "bool_read" =>
           /\ Len(out_bits) = idx
           /\ out_bits = SubSeq(bits, 1, idx)
           /\ idx = count => out_bits = bits

\* a complete round trip of five bits whose encoding propagated a carry
\* into a byte already written (0xfd became 0xfe)
C1_Witness ==
    /\ pc = "bool_read" /\ idx = count
    /\ bits = <<1, 0, 1, 0, 1>>
    /\ probs = <<254, 254, 128, 128, 128>>
    /\ out_buf = <<254, 61, 128, 0>>
    /\ out_bits = bits

----------------------------------------------------------------------------
(* Properties of the bit packer wrappers (checked under SpecLossless) *)

RECURSIVE SumSeq(_)
SumSeq(q) == IF q = <<>> THEN 0 ELSE q[1] + SumSeq(Tail(q))

\* bit j of the natural number x
BitOf(x, j) == (x \div Pow2(j)) % 2

\* bit k of a byte stream: bit k mod 8 of byte k div 8
StreamBit(buf, k) == BitOf(buf[(k \div 8) + 1], k % 8)

\* number of bits written by the calls before call number c (from 1)
BitOffset(c) == SumSeq(SubSeq(nbits, 1, c - 1))

\* C2: every value c_lossless_read_sequence reads from the returned bytes
\* with the same widths equals the value written at that position; a call
\* of width 0 reads 0.
C2_LosslessRoundTrip ==
    /\ (pc = "ll_ret" /\ ret = 0) => (lbw.error = 1 /\ idx = 0)
    /\ pc = "ll_read" =>
           /\ Len(out_values) = idx
           /\ out_values = SubSeq(values, 1, idx)
           /\ \A c \in 1..idx : nbits[c] = 0 => out_values[c] = 0
           /\ lbr.eos = 0

\* a complete round trip of three values, one of width 0 and one of width
\* 24, that do not end on a byte boundary
C2_Witness ==
    /\ pc = "ll_read" /\ idx = count
    /\ nbits = <<3, 0, 24>>
    /\ values = <<5, 0, 16777215>>
    /\ out_values = values

\* C5: in the bytes returned after finish, stream bit BitOffset(c) + j is
\* bit j of the c-th value, there are exactly ceil(total bits / 8) bytes,
\* and the bits of the last byte beyond the total are 0; put_bits(5,3),
\* put_bits(3,2) yields the single byte 0x1D.
C5_LosslessLayout ==
    (pc = "ll_ret" /\ ret = 1) =>
        LET total == SumSeq(nbits)
        IN  /\ out_size = (total + 7) \div 8
            /\ Len(out_buf) = out_size
            /\ \A c \in 1..count : \A j \in 0..(nbits[c] - 1) :
                   StreamBit(out_buf, BitOffset(c) + j) = BitOf(values[c], j)
            /\ \A k \in total..(8 * out_size - 1) : StreamBit(out_buf, k) = 0
            /\ (values = <<5, 3>> /\ nbits = <<3, 2>>) => out_buf = <<29>>

\* put_bits(5,3), put_bits(3,2), finish returned the byte 0x1D
C5_Witness ==
    /\ pc = "ll_ret" /\ ret = 1
    /\ values = <<5, 3>> /\ nbits = <<3, 2>>
    /\ out_buf = <<29>> /\ out_size = 1

----------------------------------------------------------------------------------------------------------------------------------------------------------------------------------------------------
(* Properties of the range coder when its size budget is outgrown (checked *)
(* under SpecCap)                                                          *)

----------------------------------------------------------------------------
(* Properties of the readers on a caller's buffer (checked under SpecRead) *)

\* bit k of the buffer continued by zero bits
ZeroExtBit(buf, k) == IF k < 8 * Len(buf) THEN StreamBit(buf, k) ELSE 0

\* the n bits from bit offset off of the zero-continued buffer, LSB first
RECURSIVE ZeroExtValue(_, _, _)
ZeroExtValue(buf, off, n) ==
    IF n = 0 THEN 0
    ELSE ZeroExtBit(buf, off) + 2 * ZeroExtValue(buf, off + 1, n - 1)

\* C11: whatever is read, a reader's byte cursor stays within the buffer;
\* the bit packer's reader returns the bits of the buffer continued by
\* zeros and raises its end-of-stream flag exactly when more bits were
\* asked for than the buffer holds; the range decoder raises its
\* end-of-input flag only with the cursor at the end of the buffer and
\* returns bits.
C11_UnderRead ==
    /\ pc = "rd_bool" =>
           /\ br.pos <= out_size /\ br.buf_end = out_size
           /\ br.eof = 1 => br.pos = out_size
           /\ \A c \in 1..Len(out_bits) : out_bits[c] \in {0, 1}
    /\ pc = "rd_ll" =>
           /\ lbr.pos <= out_size /\ lbr.len = out_size
           /\ \A c \in 1..idx :
                  out_values[c] = ZeroExtValue(out_buf, BitOffset(c), nbits[c])
           /\ lbr.eos = 1 <=> SumSeq(nbits) > 8 * out_size

\* 3 then 8 bits read from the single byte 0xFF: the second read gets the
\* five bits left, continued by zeros, and the end-of-stream flag is up
C11_Witness ==
    /\ pc = "rd_ll" /\ idx = count
    /\ out_buf = <<255>>
    /\ nbits = <<3, 8>>
    /\ out_values = <<7, 31>>
    /\ lbr.eos = 1 /\ lbr.pos = 1

----------------------------------------------------------------------------
(* Properties of the bit packer given any widths (checked under            *)
(* SpecLosslessAny)                                                        *)

\* the calls made so far whose width is outside 0..24
BadWidths == {c \in 1..Len(nbits) : nbits[c] < 0 \/ nbits[c] > 24}

\* the first such call
FirstBadWidth == CHOOSE c \in BadWidths : \A e \in BadWidths : c <= e

\* C12: once put_bits was called with a width outside 0..24 the writer's
\* error flag is up, it holds exactly the bits of the calls before that
\* one (nothing of the offending call or of a later one was written), and
\* c_lossless_write_sequence returns 0 leaving out_buf and out_size alone.
C12_WidthError ==
    BadWidths # {} =>
        /\ pc \in {"ll_loop", "ll_finished"} =>
               /\ lbw.error = 1
               /\ 8 * lbw.cur + lbw.used = BitOffset(FirstBadWidth)
        /\ pc = "ll_ret" => ret = 0 /\ out_buf = <<>> /\ out_size = -1

\* 8 valid bits, then a width of 25, then 3 valid bits: the call returned 0
C12_Witness ==
    /\ pc = "ll_ret" /\ ret = 0
    /\ nbits = <<8, 25, 3>>
    /\ values = <<255, 5, 5>>

----------------------------------------------------------------------------------------------------------------------------------------
(* Properties of two concurrent callers (checked under SpecTwo)            *)

\* the writer of a call running alone after its first k loop iterations
RECURSIVE WriteLoopAlone(_, _, _, _, _)
WriteLoopAlone(kind, n, a1, a2, k) ==
    IF k = 0 THEN TwoWriterInit(kind, n, TRUE).bw
    ELSE TwoWriteStep(kind, WriteLoopAlone(kind, n, a1, a2, k - 1), a1, a2, k - 1)

\* what a write call running alone returns and stores
WriteAlone(kind, n, a1, a2) ==
    TwoWriteReturn(kind, WriteLoopAlone(kind, n, a1, a2, n), <<>>, -1)

\* the reader and the values stored by a read call running alone on the
\* bytes of WriteAlone, after its first k loop iterations
RECURSIVE ReadLoopAlone(_, _, _, _, _)
ReadLoopAlone(kind, n, a1, a2, k) ==
    IF k = 0
    THEN LET a == WriteAlone(kind, n, a1, a2)
         IN  [br |-> TwoReaderInit(kind, a.out_buf, a.out_size), out |-> <<>>]
    ELSE LET p == ReadLoopAlone(kind, n, a1, a2, k - 1)
             g == TwoReadStep(kind, p.br, a2, k - 1)
         IN  [br |-> g.br, out |-> Append(p.out, g.val)]

\* C14: in every interleaving of two callers, the writer and the reader of
\* each are, after each of its statements, the ones it has when it runs
\* alone on its own arguments; its write call returns the bytes and its
\* read call stores the values it gets alone (or the write call returns 0
\* with nothing stored when its own init was refused).
C14_Independent ==
    pc = "two" =>
      \A c \in Calls :
        LET k == calls[c] IN
        /\ k.pc = "loop" =>
               slots[c].w = WriteLoopAlone(k.kind, k.count, k.arg1, k.arg2, k.idx)
        /\ k.pc = "ret" =>
               \/ /\ k.ret = 0 /\ k.idx = 0
                  /\ k.out_buf = <<>> /\ k.out_size = -1
               \/ /\ k.ret = 1 /\ k.idx = k.count
                  /\ LET a == WriteAlone(k.kind, k.count, k.arg1, k.arg2)
                     IN  k.out_buf = a.out_buf /\ k.out_size = a.out_size
                         /\ a.ret = 1
        /\ k.pc = "read" =>
               LET a == ReadLoopAlone(k.kind, k.count, k.arg1, k.arg2, k.idx)
               IN  slots[c].r = a.br /\ k.out = a.out

\* both callers have written and read back their own two-bit sequences
\* while the other ran
C14_Witness ==
    /\ pc = "two"
    /\ \A c \in Calls : /\ calls[c].pc = "read" /\ calls[c].idx = 2
                        /\ calls[c].kind = "bool" /\ calls[c].count = 2
    /\ calls[1].arg1 = <<1, 1>> /\ calls[1].arg2 = <<128, 1>>
    /\ calls[1].out = <<1, 1>>
    /\ calls[2].arg1 = <<0, 0>> /\ calls[2].out = <<0, 0>>
    /\ calls[1].out_buf # calls[2].out_buf

----------------------------------------------------------------------------
(* Frame of the color transforms (checked under SpecColor)                 *)

\* C15: c_subtract_green and c_transform_color leave the alpha and green
\* bytes of every pixel of the buffer as they were, c_add_green and
\* c_transform_color_inverse store pixels with the alpha and green bytes of
\* their source, and none of the four writes at index num_pixels or beyond
\* (the word after the last pixel keeps its value in both buffers).
C15_ChannelFrame ==
    /\ Len(argb_data) = num_pixels + 1 /\ Len(dst) = num_pixels + 1
    /\ argb_data[num_pixels + 1] = Sentinel
    /\ dst[num_pixels + 1] = Sentinel
    /\ pc \in {"sub_green", "xform"} =>
           \A i \in Pixels : /\ argb_data[i][1] = orig[i][1]
                             /\ argb_data[i][3] = orig[i][3]
    /\ pc \in {"add_green", "xform_inv"} =>
           \A i \in Pixels : /\ dst[i][1] = argb_data[i][1]
                             /\ dst[i][3] = argb_data[i][3]
                             /\ dst[i][1] = orig[i][1]
                             /\ dst[i][3] = orig[i][3]

\* a forward transform that changed red and blue of the last pixel and
\* nothing else
C15_Witness ==
    /\ pc = "xform"
    /\ num_pixels >= 1
    /\ argb_data[num_pixels][2] # orig[num_pixels][2]
    /\ argb_data[num_pixels][4] # orig[num_pixels][4]
    /\ argb_data[num_pixels][1] = orig[num_pixels][1]
    /\ argb_data[num_pixels][3] = orig[num_pixels][3]
    /\ orig[num_pixels][1] # 0 /\ orig[num_pixels][3] # 0
    /\ argb_data[num_pixels + 1] = Sentinel

----------------------------------------------------------------------------------------------------------------------------------------
(* Range of the coder between calls (checked under SpecBool)               *)

\* C17: from init on, after every completed put_bit (and after finish) the
\* encoder's range lies in 128..255, and after every completed get_bit the
\* decoder's range lies in 128..255.
C17_RangeBand ==
    /\ pc \in {"bool_loop", "bool_finished"} => bw.range \in 128..255
    /\ pc = "bool_read" => br.range \in 128..255

\* a decoder that has decoded three bits or more, the last one with a
\* renormalisation, its range back in the band
C17_Witness ==
    /\ pc = "bool_read"
    /\ idx >= 3
    /\ out_bits[idx] = 1 /\ probs[idx] = 254
    /\ br.range = 128

----------------------------------------------------------------------------
(* Encoder and decoder step by step (checked under SpecBool)               *)

\* C18: when c_bool_read_sequence decodes the bytes c_bool_write_sequence
\* returned with the same probabilities, its i-th get_bit computes the
\* split the i-th put_bit computed, makes as many renormalisation shifts
\* and leaves the same range, for every i decoded so far.
C18_Lockstep ==
    pc = "bool_read" =>
        /\ Len(trace.enc) = count /\ Len(trace.dec) = idx
        /\ \A c \in 1..idx : trace.dec[c] = trace.enc[c]

\* four steps in lockstep through different splits and shift counts
C18_Witness ==
    /\ pc = "bool_read" /\ idx = 4
    /\ trace.dec[1] = [range |-> 128, split |-> 253, shift |-> 6]
    /\ trace.dec[2].shift = 1
    /\ trace.dec[3].shift = 0
    /\ trace.dec[4].shift = 7
    /\ trace.dec[4] = trace.enc[4]

----------------------------------------------------------------------------
(* Accumulators of the bit packer (checked under SpecLossless)             *)

\* C19: with widths in 0..24, the writer holds at most 7 pending bits
\* between calls, and a put_bits call starting from them holds at most 31
\* (the pending bits plus the width) before it moves bytes out; the reader
\* holds at most 7 valid bits between calls and at most 31 inside a call
\* (what is left after the read plus the width read).
C19_AccumulatorBound ==
    /\ [](/\ pc \in {"ll_loop", "ll_finished"} => lbw.used \in 0..7
          /\ pc = "ll_read" => lbr.avail \in 0..7)
    /\ [][/\ (pc = "ll_loop" /\ pc' = "ll_loop") =>
                 /\ lbw.used + nbits'[idx'] <= 31
                 /\ lbw.bits < Pow2(lbw.used)
          /\ (pc = "ll_read" /\ pc' = "ll_read" /\ lbr'.eos = 0) =>
                 lbr'.avail + nbits[idx'] <= 31]_vars

\* a 24-bit value written on top of 7 pending bits (31 inside the call, 7
\* pending after it) and read back the same way
C19_Witness ==
    /\ pc = "ll_read" /\ idx = 2
    /\ nbits = <<7, 24>>
    /\ out_values = <<127, 16777215>>
    /\ lbr.avail = 1 /\ lbr.eos = 0

----------------------------------------------------------------------------
(* Split and renormalisation of one coding step (checked under SpecSplit)  *)

\* C20: for every range in 128..255 and every probability in 1..255 the
\* split is at least 1 and at most range - 1, so the sub-range of a 0
\* (split) and the sub-range of a 1 (range - split) are both at least 1,
\* and the step renormalises the chosen sub-range back into 128..255 with
\* at most 7 shifts.
C20_SplitBounds ==
    pc = "split_done" =>
        LET sub == IF sp.bit = 1 THEN sp.range - sp.split ELSE sp.split
        IN  /\ 1 <= sp.split /\ sp.split <= sp.range - 1
            /\ sp.range - sp.split >= 1
            /\ sp.shift \in 0..7
            /\ sp.out = sub * Pow2(sp.shift)
            /\ sp.out \in 128..255

\* the smallest sub-range: range 128 with probability 1 codes a 0 in a
\* sub-range of 1 and takes 7 shifts
C20_Witness ==
    /\ pc = "split_done"
    /\ sp.range = 128 /\ sp.prob = 1 /\ sp.bit = 0
    /\ sp.split = 1 /\ sp.shift = 7 /\ sp.out = 128

----------------------------------------------------------------------------
(* Lifecycle of the writer in a write wrapper (checked under SpecLife)     *)

\* the places of statement e in the log
LogAt(e) == {k \in 1..Len(log) : log[k] = e}

\* C21: a call of c_bool_write_sequence or c_lossless_write_sequence stores
\* nothing in out_buf and *out_size before its copy, and ends returning 0
\* without having copied or returning 1 having copied, once, the first sz
\* bytes of the buffer finish returned; the writer is wiped out at most
\* once, exactly once by the end of a call whose init succeeded, after
\* finish, and no put, finish or copy comes after the wipe-out (the copy
\* reads the buffer while it is still allocated).
C21_WriterLifecycle ==
    wrapper # "none" =>
        /\ Cardinality(LogAt("wipe")) <= 1
        /\ \A k \in LogAt("wipe") :
               /\ LogAt("finish") # {}
               /\ \A j \in LogAt("put") \cup LogAt("finish") \cup LogAt("copy") : j < k
        /\ LogAt("wipe") # {} <=> (LogAt("finish") # {} /\ ~wbuf.live)
        /\ LogAt("copy") = {} => out_buf = <<>> /\ out_size = -1
        /\ pc = "done" =>
               /\ LogAt("init") # {} => Cardinality(LogAt("wipe")) = 1
               /\ \/ ret = 0 /\ LogAt("copy") = {}
                  \/ /\ ret = 1 /\ Cardinality(LogAt("copy")) = 1
                     /\ out_size = sz
                     /\ out_buf = SubSeq(wbuf.bytes, 1, sz)

\* a call of c_bool_write_sequence that coded two bits, finished, copied
\* its bytes, wiped the writer out and returned 1
C21_Witness ==
    /\ pc = "done" /\ ret = 1
    /\ wrapper = "bool"
    /\ log = <<"init", "put", "put", "finish", "copy", "wipe", "return">>
    /\ out_size >= 1 /\ Len(out_buf) = out_size

====
